---- MODULE Spec2Model ----
(***************************************************************************)
(* Construction Schedule Planner (src/work.py).                            *)
(*                                                                         *)
(* The program is a script that is run from top to bottom once for every   *)
(* user interaction.  The task store st.session_state.tasks lives across   *)
(* runs, and so does the file held by the upload widget.  One run passes   *)
(* the add handler (26-43), the import handler (70-76), the save handler   *)
(* (89-97), the edit section with the update handler (99-147) and the      *)
(* chart build (149-263).  pc is the position of the run in the script.    *)
(*                                                                         *)
(* Values.  Every cell of a task record is a tagged value [t, d, s]:       *)
(*   t = "None"  Python None            t = "NaN"  float nan               *)
(*   t = "NaT"   pandas NaT             t = "num"  a number d              *)
(*   t = "date"  datetime.date, day d   t = "ts"   pandas Timestamp, day d *)
(*   t = "str"   the text strftime("%Y-%m-%d") of day d                    *)
(*   t = "text"  any other text, the sequence of characters s              *)
(* Day d is a calendar day counted from a reference day; all times of the  *)
(* chart are milliseconds counted from the same reference.                 *)
(***************************************************************************)
EXTENDS Integers, Sequences, FiniteSets, TLC

VARIABLES
    tasks,          \* st.session_state.tasks: sequence of task records
    uploaded_file,  \* the data set held by the upload widget, or NoFile
    pc,             \* position of the current script run
    clicked,        \* the button whose press started the current run
    form,           \* widget values read by the handler that ran last
    report,         \* messages shown by the current run, in order
    output,         \* the workbook offered for download by the current run
    chart           \* the figure built by the current run

vars == <<tasks, uploaded_file, pc, clicked, form, report, output, chart>>

----------------------------------------------------------------------------
(* Tagged values *)

V(t, d, s) == [t |-> t, d |-> d, s |-> s]
None     == V("None", 0, <<>>)
NaN      == V("NaN", 0, <<>>)
NaT      == V("NaT", 0, <<>>)
Num(n)   == V("num", n, <<>>)
Date(n)  == V("date", n, <<>>)
Ts(n)    == V("ts", n, <<>>)
DStr(n)  == V("str", n, <<>>)
Text(s)  == V("text", 0, s)

\* pd.notnull / pd.isnull
notnull(v) == v.t \notin {"None", "NaN", "NaT"}

\* pd.to_datetime of one value: absent values become NaT, dates of any
\* representation become a Timestamp of the same day.
to_datetime(v) == IF notnull(v) THEN Ts(v.d) ELSE NaT

----------------------------------------------------------------------------
(* Text: str.strip and str.lower *)

IsSpace(c) == c = " "

RECURSIVE lstrip(_)
lstrip(s) ==
    IF s = <<>> THEN <<>>
    ELSE IF IsSpace(Head(s)) THEN lstrip(Tail(s)) ELSE s

RECURSIVE rstrip(_)
rstrip(s) ==
    IF s = <<>> THEN <<>>
    ELSE IF IsSpace(s[Len(s)]) THEN rstrip(SubSeq(s, 1, Len(s) - 1)) ELSE s

strip(s) == rstrip(lstrip(s))

lower_char(c) ==
    CASE c = "A" -> "a"
      [] c = "B" -> "b"
      [] c = "W" -> "w"
      [] OTHER   -> c

lower(s) == [i \in 1..Len(s) |-> lower_char(s[i])]

----------------------------------------------------------------------------
(* Bounds and input sets *)

\* Largest number of rows of an uploaded data set.
MaxRows == 2

\* Text typed into the name field of the add form (line 18).
TypedNames == { <<" ">>, <<"a">>, <<" ", "A">>, <<"b">> }

\* Text typed into the dependency field of the add form (line 21).
TypedDependencies == { <<"A", " ">> }

Durations  == {1, 3}
StartDays  == {1}
FormProgress   == {0, 50}
UpdateProgress == {100}
ActualStartDays  == {1}
ActualFinishDays == {1, 2}

NoFile == [cols |-> {}, rows |-> <<>>, none |-> TRUE]
NoForm == [op |-> "none"]
NoChart == [traces |-> <<>>, shapes |-> <<>>, annotations |-> <<>>, built |-> FALSE]

----------------------------------------------------------------------------
(* Add task with validation, lines 26-43 *)

existing_names(ts) == [i \in 1..Len(ts) |-> lower(ts[i].Task.s)]

InSeq(x, q) == \E i \in 1..Len(q) : q[i] = x

NewTask(task_name, duration, start_date, dependency, progress) ==
    [Task         |-> Text(task_name),
     Duration     |-> Num(duration),
     StartDate    |-> Date(start_date),
     DependsOn    |-> Text(dependency),
     Progress     |-> Num(progress),
     ActualStart  |-> None,
     ActualFinish |-> None,
     Delay        |-> None]

\* Variant of AddTask: the duplicate test compares the names as typed,
\* without lower().
AddTaskCaseSensitive(ts, task_name, duration, start_date, dependency, progress) ==
    IF task_name = <<>>
    THEN [tasks |-> ts, msg |-> "warning: name empty"]
    ELSE IF \E i \in 1..Len(ts) : ts[i].Task.s = task_name
    THEN [tasks |-> ts, msg |-> "warning: name exists"]
    ELSE [tasks |-> Append(ts, NewTask(task_name, duration, start_date,
                                       dependency, progress)),
          msg   |-> "success: task added"]

\* Variant of AddTask: the test for an empty name is missing.
AddTaskNoEmptyCheck(ts, task_name, duration, start_date, dependency, progress) ==
    IF InSeq(lower(task_name), existing_names(ts))
    THEN [tasks |-> ts, msg |-> "warning: name exists"]
    ELSE [tasks |-> Append(ts, NewTask(task_name, duration, start_date,
                                       dependency, progress)),
          msg   |-> "success: task added"]

\* The outcome of the add handler: the new store and the message shown.
AddTask(ts, task_name, duration, start_date, dependency, progress) ==
    IF task_name = <<>>
    THEN [tasks |-> ts, msg |-> "warning: name empty"]
    ELSE IF InSeq(lower(task_name), existing_names(ts))
    THEN [tasks |-> ts, msg |-> "warning: name exists"]
    ELSE [tasks |-> Append(ts, NewTask(task_name, duration, start_date,
                                       dependency, progress)),
          msg   |-> "success: task added"]

----------------------------------------------------------------------------
(* Uploaded data sets.  A data set is the frame pd.read_excel returns: the *)
(* set of its column names and its rows.  A row carries a cell for every   *)
(* column the program reads; the cell of a column that is not in cols is   *)
(* never read.  A blank cell reads as NaN, a date cell as a Timestamp.     *)

RequiredCols == {"Task", "Duration", "Start Date"}
OptionalCols == {"Depends On", "Progress", "Actual Start", "Actual Finish"}
AllCols      == RequiredCols \cup OptionalCols

Row(task, duration, start, dep, progress, astart, afinish) ==
    [Task |-> task, Duration |-> duration, StartDate |-> start,
     DependsOn |-> dep, Progress |-> progress,
     ActualStart |-> astart, ActualFinish |-> afinish, Delay |-> NaN]

DataFrame(cols, rows) == [cols |-> cols, rows |-> rows, none |-> FALSE]

FileRows ==
    { Row(Text(<<"a">>), Num(1), Ts(1), NaN, Num(0), NaN, NaN),
      Row(Text(<<"a">>), Num(3), Ts(1), Text(<<"A">>), Num(50), Ts(1), Ts(2)) }

RowSeqs(n) == UNION { [1..k -> FileRows] : k \in 1..n }

Datasets ==
    { DataFrame(AllCols, r) : r \in RowSeqs(MaxRows) }
    \cup
    { DataFrame(RequiredCols, r) : r \in RowSeqs(1) }
    \cup
    { DataFrame(AllCols \ {c}, << Row(Text(<<"a">>), Num(1), Ts(1), NaN, Num(0), NaN, NaN) >>)
        : c \in RequiredCols }

----------------------------------------------------------------------------
(* load_tasks_from_excel, lines 46-68 *)

\* Variant of RowDelay: the planned finish is taken as start + duration.
RowDelayNoMinusOne(row) ==
    IF notnull(row.ActualFinish)
    THEN Num(row.ActualFinish.d - (row.StartDate.d + row.Duration.d))
    ELSE None

\* lines 56-63: the delay of one row
RowDelay(row) ==
    IF notnull(row.ActualFinish)
    THEN LET planned_finish == row.StartDate.d + (row.Duration.d - 1)
             delay_days     == row.ActualFinish.d - planned_finish
         IN  Num(IF delay_days # 0 THEN delay_days ELSE 0)
    ELSE None

\* line 64: a list of delays becomes a column.  A list that mixes numbers
\* and None becomes a float column, in which None is stored as NaN.
DelayColumn(delays) ==
    IF \E i \in 1..Len(delays) : delays[i].t = "num"
    THEN [i \in 1..Len(delays) |-> IF delays[i].t = "num" THEN delays[i] ELSE NaN]
    ELSE delays

\* lines 50-54: the columns of one row after coercion
CoerceRow(cols, row) ==
    [Task         |-> row.Task,
     Duration     |-> row.Duration,
     StartDate    |-> to_datetime(row.StartDate),
     DependsOn    |-> IF "Depends On" \in cols THEN row.DependsOn ELSE Text(<<>>),
     Progress     |-> IF "Progress" \in cols THEN row.Progress ELSE Num(0),
     ActualStart  |-> IF "Actual Start" \in cols THEN to_datetime(row.ActualStart) ELSE None,
     ActualFinish |-> IF "Actual Finish" \in cols THEN to_datetime(row.ActualFinish) ELSE None,
     Delay        |-> NaN]

\* The outcome of the call: the records, or the exception raised.
load_tasks_from_excel(df) ==
    IF "Task" \in df.cols /\ "Duration" \in df.cols
    THEN IF "Start Date" \notin df.cols
         THEN [ok |-> FALSE, tasks |-> <<>>, err |-> "KeyError: Start Date"]
         ELSE LET rows   == [i \in 1..Len(df.rows) |-> CoerceRow(df.cols, df.rows[i])]
                  delays == DelayColumn([i \in 1..Len(rows) |-> RowDelay(rows[i])])
              IN  [ok    |-> TRUE,
                   tasks |-> [i \in 1..Len(rows) |-> [rows[i] EXCEPT !.Delay = delays[i]]],
                   err   |-> ""]
    ELSE [ok |-> FALSE, tasks |-> <<>>, err |-> "ValueError: Invalid Excel file format"]

\* Variant of ImportFile: the store is emptied before the file is read.
ImportFileClearsFirst(ts, df) ==
    LET r == load_tasks_from_excel(df)
    IN  IF r.ok THEN [tasks |-> r.tasks, msg |-> "success: data loaded"]
        ELSE [tasks |-> <<>>, msg |-> "error: loading file"]

\* lines 71-76: the store and the message after the import handler
ImportFile(ts, df) ==
    LET r == load_tasks_from_excel(df)
    IN  IF r.ok THEN [tasks |-> r.tasks, msg |-> "success: data loaded"]
        ELSE [tasks |-> ts, msg |-> "error: loading file"]

----------------------------------------------------------------------------
(* save_tasks_to_excel, lines 78-87 *)

\* One cell written by DataFrame.to_excel and read back by pd.read_excel:
\* None, NaN, NaT and the empty text are written as blank cells, dates of
\* either kind as date cells, text and numbers as they are.
ExcelCell(v) ==
    CASE ~notnull(v)                   -> NaN
      [] v.t = "text" /\ v.s = <<>>    -> NaN
      [] v.t \in {"date", "ts"}        -> Ts(v.d)
      [] OTHER                         -> v

ExcelRow(task) ==
    [Task |-> ExcelCell(task.Task), Duration |-> ExcelCell(task.Duration),
     StartDate |-> ExcelCell(task.StartDate), DependsOn |-> ExcelCell(task.DependsOn),
     Progress |-> ExcelCell(task.Progress), ActualStart |-> ExcelCell(task.ActualStart),
     ActualFinish |-> ExcelCell(task.ActualFinish), Delay |-> ExcelCell(task.Delay)]

\* The workbook returned for a non-empty store; NoFile (and a warning) for
\* an empty one.
save_tasks_to_excel(ts) ==
    IF ts # <<>>
    THEN [cols |-> AllCols \cup {"Delay"},
          rows |-> [i \in 1..Len(ts) |-> ExcelRow(ts[i])],
          none |-> FALSE]
    ELSE NoFile

----------------------------------------------------------------------------
(* Update Task handler, lines 134-147 *)

\* Variant of UpdateRecord: the planned finish is taken as start + duration.
UpdateRecordNoMinusOne(task, new_progress, actual_start, actual_finish) ==
    [task EXCEPT
       !.Progress     = Num(new_progress),
       !.ActualStart  = IF notnull(actual_start) THEN DStr(actual_start.d) ELSE None,
       !.ActualFinish = IF notnull(actual_finish) THEN DStr(actual_finish.d) ELSE None,
       !.Delay        =
           IF notnull(actual_finish)
           THEN Num(actual_finish.d - (task.StartDate.d + task.Duration.d))
           ELSE None]

\* lines 137-145, the body for one matching record.  actual_start and
\* actual_finish are the values of the two date inputs: a date, or None.
UpdateRecord(task, new_progress, actual_start, actual_finish) ==
    [task EXCEPT
       !.Progress     = Num(new_progress),
       !.ActualStart  = IF notnull(actual_start) THEN DStr(actual_start.d) ELSE None,
       !.ActualFinish = IF notnull(actual_finish) THEN DStr(actual_finish.d) ELSE None,
       !.Delay        =
           IF notnull(actual_finish)
           THEN LET planned_finish == to_datetime(task.StartDate).d + (task.Duration.d - 1)
                    delay_days     == to_datetime(actual_finish).d - planned_finish
                IN  Num(IF delay_days # 0 THEN delay_days ELSE 0)
           ELSE None]

\* lines 135-136: the loop over the store
UpdateTask(ts, selected_task, new_progress, actual_start, actual_finish) ==
    [i \in 1..Len(ts) |->
        IF ts[i].Task = selected_task
        THEN UpdateRecord(ts[i], new_progress, actual_start, actual_finish)
        ELSE ts[i]]

\* line 115
task_names(ts) == { ts[i].Task : i \in 1..Len(ts) }

----------------------------------------------------------------------------
(* The displayed frame, lines 100-105 and 151-152 *)

DisplayDate(v) == IF notnull(v) THEN DStr(v.d) ELSE NaN

DisplayRow(task, i) ==
    [Task         |-> task.Task,
     Duration     |-> task.Duration,
     StartDate    |-> DisplayDate(task.StartDate),
     ActualStart  |-> DisplayDate(task.ActualStart),
     ActualFinish |-> DisplayDate(task.ActualFinish),
     EndDate      |-> DStr(task.StartDate.d + (task.Duration.d - 1)),
     DependsOn    |-> Text(strip(IF notnull(task.DependsOn) THEN task.DependsOn.s ELSE <<>>)),
     Progress     |-> task.Progress,
     Delay        |-> task.Delay,
     TaskLabel    |-> <<task.Task.s, i - 1>>]

gantt_df(ts) == [i \in 1..Len(ts) |-> DisplayRow(ts[i], i)]

----------------------------------------------------------------------------
(* Chart build, lines 154-237 *)

day_to_ms == 86400000

\* pd.to_datetime(text).timestamp() * 1000
timestamp_ms(v) == v.d * day_to_ms

Bar(name, label, base, x, lane) ==
    [name |-> name, y |-> label, base |-> base, x |-> x, lane |-> lane]

\* lines 160-171
PlannedBar(row) ==
    Bar("Planned", row.TaskLabel, timestamp_ms(row.StartDate),
        row.Duration.d * day_to_ms, "upper")

\* Variant of ProgressBars: Progress / 100 is an integer division.
ProgressBarsIntDiv(row) ==
    IF row.Progress.t = "num" /\ row.Progress.d > 0
    THEN << Bar("Progress", row.TaskLabel, timestamp_ms(row.StartDate),
                row.Duration.d * (row.Progress.d \div 100) * day_to_ms, "upper") >>
    ELSE << >>

\* lines 174-183.  Duration * (Progress / 100) * day_to_ms; day_to_ms is a
\* multiple of 100, so the exact value is an integer number of milliseconds.
ProgressBars(row) ==
    IF row.Progress.t = "num" /\ row.Progress.d > 0
    THEN << Bar("Progress", row.TaskLabel, timestamp_ms(row.StartDate),
                row.Duration.d * row.Progress.d * (day_to_ms \div 100), "upper") >>
    ELSE << >>

\* lines 190-196
ActualName(delay) ==
    IF delay.t = "num" /\ delay.d > 0 THEN "Actual (Delayed)"
    ELSE IF delay.t = "num" /\ delay.d < 0 THEN "Actual (Ahead)"
    ELSE "Actual (On Time)"

\* Variant of ActualBars: the bar is drawn as soon as the actual start is
\* present.
ActualBarsStartOnly(row) ==
    IF notnull(row.ActualStart)
    THEN << Bar(ActualName(row.Delay), row.TaskLabel, timestamp_ms(row.ActualStart),
                (row.ActualFinish.d - row.ActualStart.d + 1) * day_to_ms, "lower") >>
    ELSE << >>

\* Variant of ActualBars: the finish day is not part of the span.
ActualBarsExclusive(row) ==
    IF notnull(row.ActualStart) /\ notnull(row.ActualFinish)
    THEN << Bar(ActualName(row.Delay), row.TaskLabel, timestamp_ms(row.ActualStart),
                (row.ActualFinish.d - row.ActualStart.d) * day_to_ms, "lower") >>
    ELSE << >>

\* lines 186-205
ActualBars(row) ==
    IF notnull(row.ActualStart) /\ notnull(row.ActualFinish)
    THEN << Bar(ActualName(row.Delay), row.TaskLabel, timestamp_ms(row.ActualStart),
                (row.ActualFinish.d - row.ActualStart.d + 1) * day_to_ms, "lower") >>
    ELSE << >>

RowTraces(row) == <<PlannedBar(row)>> \o ProgressBars(row) \o ActualBars(row)

\* Variant of dep_task: the names are compared without lower().
dep_taskCaseSensitive(df, row) ==
    SelectSeq(df, LAMBDA r : r.Task.s = row.DependsOn.s)

\* line 209: the rows whose name matches, in store order
dep_task(df, row) ==
    SelectSeq(df, LAMBDA r : lower(r.Task.s) = lower(row.DependsOn.s))

\* lines 208-224: the two line segments of a connector
RowShapes(df, row) ==
    IF row.DependsOn.s # <<>> /\ dep_task(df, row) # <<>>
    THEN LET dep_row    == dep_task(df, row)[1]
             dep_end_ts == timestamp_ms(dep_row.EndDate) + day_to_ms
             start_ts   == timestamp_ms(row.StartDate)
         IN  << [x0 |-> dep_end_ts, y0 |-> dep_row.TaskLabel,
                 x1 |-> dep_end_ts, y1 |-> row.TaskLabel],
                [x0 |-> dep_end_ts, y0 |-> row.TaskLabel,
                 x1 |-> start_ts - 100000, y1 |-> row.TaskLabel] >>
    ELSE << >>

\* lines 227-237: the arrow of a connector
RowAnnotations(df, row) ==
    IF row.DependsOn.s # <<>> /\ dep_task(df, row) # <<>>
    THEN LET dep_row    == dep_task(df, row)[1]
             dep_end_ts == timestamp_ms(dep_row.EndDate) + day_to_ms
         IN  << [x |-> timestamp_ms(row.StartDate), y |-> row.TaskLabel,
                 ax |-> dep_end_ts, ay |-> row.TaskLabel] >>
    ELSE << >>

RECURSIVE Flatten(_)
Flatten(seqs) == IF seqs = <<>> THEN <<>> ELSE Head(seqs) \o Flatten(Tail(seqs))

\* lines 154-237: the figure after the loop over the rows
BuildChart(ts) ==
    LET df == gantt_df(ts)
    IN  [traces      |-> Flatten([i \in 1..Len(df) |-> RowTraces(df[i])]),
         shapes      |-> Flatten([i \in 1..Len(df) |-> RowShapes(df, df[i])]),
         annotations |-> Flatten([i \in 1..Len(df) |-> RowAnnotations(df, df[i])]),
         built       |-> TRUE]

----------------------------------------------------------------------------
(* The script run *)

Rank(pos) ==
    CASE pos = "top"    -> 0
      [] pos = "add"    -> 1
      [] pos = "import" -> 2
      [] pos = "save"   -> 3
      [] pos = "edit"   -> 4
      [] pos = "chart"  -> 5
      [] OTHER          -> 6

\* The next position below `from` at which the run does something: the add
\* handler if the form was submitted (26), the import handler if the upload
\* widget holds a file (71), the save handler if its button was pressed
\* (89); then, for a non-empty store (99), the update handler if its button
\* was pressed (134) and the chart build (149).  With an empty store the
\* run ends (264-265).
Goto(from, c, file, ts) ==
    IF Rank(from) < Rank("add") /\ c = "add" THEN "add"
    ELSE IF Rank(from) < Rank("import") /\ ~file.none THEN "import"
    ELSE IF Rank(from) < Rank("save") /\ c = "save" THEN "save"
    ELSE IF ts = <<>> THEN "idle"
    ELSE IF Rank(from) < Rank("edit") /\ c = "update" THEN "edit"
    ELSE IF Rank(from) < Rank("chart") THEN "chart"
    ELSE "idle"

Init ==
    /\ tasks = <<>>
    /\ uploaded_file = NoFile
    /\ pc = "idle"
    /\ clicked = "none"
    /\ form = NoForm
    /\ report = <<>>
    /\ output = NoFile
    /\ chart = NoChart

\* A user interaction starts a run: the page is rendered anew.  f holds the
\* values of the widgets the pressed button belongs to.
StartRun(c, file, f) ==
    /\ pc = "idle"
    /\ clicked' = c
    /\ uploaded_file' = file
    /\ form' = f
    /\ pc' = Goto("top", c, file, tasks)
    /\ report' = <<>>
    /\ output' = NoFile
    /\ chart' = NoChart
    /\ UNCHANGED tasks

\* lines 17-23: the add form is filled in and submitted
SubmitForm ==
    \E typed_name \in TypedNames, duration \in Durations, start_date \in StartDays,
       typed_dep \in TypedDependencies, progress \in FormProgress :
        StartRun("add", uploaded_file,
                 [op |-> "add", task_name |-> strip(typed_name), duration |-> duration,
                  start_date |-> start_date, dependency |-> strip(typed_dep),
                  progress |-> progress])

\* line 70: a file is put into the upload widget: a data set of the user,
\* or the workbook the previous run offered for download
UploadFile ==
    \E df \in Datasets \cup (IF output.none THEN {} ELSE {output}) :
        StartRun("none", df, NoForm)

\* line 70: the file is taken out of the upload widget
RemoveFile == ~uploaded_file.none /\ StartRun("none", NoFile, NoForm)

\* line 89: the save button is pressed
ClickSave == StartRun("save", uploaded_file, NoForm)

\* lines 115-134: a task is selected, the three inputs are set and the update
\* button is pressed; the section is shown for a non-empty store
ClickUpdate ==
    /\ tasks # <<>>
    /\ \E selected_task \in task_names(tasks), new_progress \in UpdateProgress,
          actual_start \in ActualStartDays, actual_finish \in ActualFinishDays :
        StartRun("update", uploaded_file,
                 [op |-> "update", selected_task |-> selected_task,
                  new_progress |-> new_progress, actual_start |-> Date(actual_start),
                  actual_finish |-> Date(actual_finish)])

\* lines 26-43
AddStep ==
    /\ pc = "add"
    /\ LET r == AddTask(tasks, form.task_name, form.duration, form.start_date,
                        form.dependency, form.progress)
       IN  /\ tasks' = r.tasks
           /\ report' = Append(report, r.msg)
    /\ form' = NoForm
    /\ pc' = Goto("add", clicked, uploaded_file, tasks')
    /\ UNCHANGED <<uploaded_file, clicked, output, chart>>

\* lines 70-76
ImportStep ==
    /\ pc = "import"
    /\ LET r == ImportFile(tasks, uploaded_file)
       IN  /\ tasks' = r.tasks
           /\ report' = Append(report, r.msg)
    /\ pc' = Goto("import", clicked, uploaded_file, tasks')
    /\ UNCHANGED <<uploaded_file, clicked, form, output, chart>>

\* lines 89-97
SaveStep ==
    /\ pc = "save"
    /\ output' = save_tasks_to_excel(tasks)
    /\ report' = IF tasks = <<>> THEN Append(report, "warning: no tasks to save") ELSE report
    /\ pc' = Goto("save", clicked, uploaded_file, tasks)
    /\ UNCHANGED <<tasks, uploaded_file, clicked, form, chart>>

\* lines 134-147: the update, then st.rerun() starts the script again from
\* the top with no button pressed; the messages of the abandoned run,
\* "Task updated!" included, are not on the page rendered by the new run
EditStep ==
    /\ pc = "edit"
    /\ tasks' = UpdateTask(tasks, form.selected_task, form.new_progress,
                           form.actual_start, form.actual_finish)
    /\ report' = <<>>
    /\ form' = NoForm
    /\ clicked' = "none"
    /\ pc' = Goto("top", "none", uploaded_file, tasks')
    /\ UNCHANGED <<uploaded_file, output, chart>>

\* lines 149-263
ChartStep ==
    /\ pc = "chart"
    /\ chart' = BuildChart(tasks)
    /\ pc' = "idle"
    /\ UNCHANGED <<tasks, uploaded_file, clicked, form, report, output>>

Next ==
    \/ SubmitForm
    \/ UploadFile
    \/ RemoveFile
    \/ ClickSave
    \/ ClickUpdate
    \/ AddStep
    \/ ImportStep
    \/ SaveStep
    \/ EditStep
    \/ ChartStep

Spec == Init /\ [][Next]_vars


----------------------------------------------------------------------------
(* Helpers of the properties *)

\* A cell is absent when it holds None, NaN or NaT.
Absent(v) == ~notnull(v)

\* What a cell says, whatever its representation: absent, or a day / number /
\* text.
Val(v) == IF Absent(v) THEN <<FALSE, 0, <<>>>> ELSE <<TRUE, v.d, v.s>>

\* Two names are the same name when compared case-insensitively.
SameNameCI(x, y) == lower(x) = lower(y)

NamesValid(ts) ==
    /\ \A i \in 1..Len(ts) : ts[i].Task.t = "text" /\ ts[i].Task.s # <<>>
    /\ \A i, j \in 1..Len(ts) : i # j => ~SameNameCI(ts[i].Task.s, ts[j].Task.s)

Last(q) == q[Len(q)]

----------------------------------------------------------------------------
(* C1.  An add whose stripped name is empty, or whose name equals the name *)
(* of a task already in the store when both are compared                  *)
(* case-insensitively, is rejected: the store after the add is the store  *)
(* before it, and a warning is shown.  Any other add appends exactly one  *)
(* record at the end, with the given name, duration, start date,          *)
(* dependency and progress and with actualStart, actualFinish and delay   *)
(* absent.                                                                *)
C1_AddValidation ==
    [][ pc = "add" =>
          IF \/ form.task_name = <<>>
             \/ \E i \in 1..Len(tasks) : SameNameCI(tasks[i].Task.s, form.task_name)
          THEN /\ tasks' = tasks
               /\ report' # report
          ELSE /\ Len(tasks') = Len(tasks) + 1
               /\ SubSeq(tasks', 1, Len(tasks)) = tasks
               /\ LET t == Last(tasks')
                  IN  /\ t.Task = Text(form.task_name)
                      /\ Val(t.Duration) = <<TRUE, form.duration, <<>>>>
                      /\ Val(t.StartDate) = <<TRUE, form.start_date, <<>>>>
                      /\ t.DependsOn = Text(form.dependency)
                      /\ Val(t.Progress) = <<TRUE, form.progress, <<>>>>
                      /\ Absent(t.ActualStart)
                      /\ Absent(t.ActualFinish)
                      /\ Absent(t.Delay) ]_vars

\* An add of a name that differs from a stored name only by case was
\* rejected on a non-empty store.
C1_Witness ==
    /\ report = <<"warning: name exists">>
    /\ tasks # <<>>
    /\ \E i \in 1..Len(tasks) : tasks[i].Task.s = <<"a">>
    /\ \E i \in 1..Len(tasks) : tasks[i].Task.s = <<"b">>

----------------------------------------------------------------------------
(* C2 as stated.  In every state of the store reachable by add, update and *)
(* import operations every task name is non-empty and no two names are    *)
(* equal when compared case-insensitively.                                *)
C2_NamesUniqueAlways == NamesValid(tasks)

(* C2 amended.  The add and the update operations keep the names valid:   *)
(* when every name is non-empty and no two are equal case-insensitively   *)
(* before an add or an update, the same holds after it.  With the empty   *)
(* initial store, this is the claim for every store reached by add and    *)
(* update operations alone; an import stores the names of the data set    *)
(* unchecked.                                                             *)
C2_AddUpdateKeepNamesValid ==
    [][ (pc \in {"add", "edit"} /\ NamesValid(tasks)) => NamesValid(tasks') ]_vars

\* Two tasks were added and one of them was updated, with no file involved.
C2_Witness ==
    /\ Len(tasks) = 2
    /\ NamesValid(tasks)
    /\ uploaded_file.none
    /\ \A i \in 1..2 : tasks[i].StartDate.t = "date"
    /\ \E i \in 1..2 : tasks[i].ActualFinish.t = "str"

----------------------------------------------------------------------------
(* C3.  In every reachable state each task's stored delay is absent       *)
(* exactly when its actualFinish is absent, and otherwise is the signed   *)
(* number of days from plannedFinish = startDate + (duration - 1) days to *)
(* actualFinish; a stored delay of 0 is a number, not an absent delay.    *)
C3_DelayInvariant ==
    \A i \in 1..Len(tasks) :
        LET t == tasks[i]
            plannedFinish == t.StartDate.d + (t.Duration.d - 1)
        IN  /\ Absent(t.Delay) <=> Absent(t.ActualFinish)
            /\ ~Absent(t.ActualFinish) =>
                   /\ t.Delay.t = "num"
                   /\ t.Delay.d = t.ActualFinish.d - plannedFinish
            /\ (~Absent(t.ActualFinish) /\ t.ActualFinish.d = plannedFinish) =>
                   t.Delay = Num(0) /\ ~Absent(t.Delay)

\* A store holding a task finished on its planned day (delay 0), a task
\* finished early and a task not finished (delay absent).
C3_Witness ==
    /\ pc = "idle"
    /\ \E i \in 1..Len(tasks) : tasks[i].Delay = Num(0)
    /\ \E i \in 1..Len(tasks) : tasks[i].Delay.t = "num" /\ tasks[i].Delay.d < 0
    /\ \E i \in 1..Len(tasks) : Absent(tasks[i].Delay) /\ Absent(tasks[i].ActualFinish)

----------------------------------------------------------------------------
(* C4.  An import that fails (the data set lacks one of the columns the   *)
(* import reads without a default: Task, Duration, Start Date) leaves the *)
(* store as it was and reports one error; an import that succeeds         *)
(* replaces the whole store by the records of the data set, one per row   *)
(* and in row order, keeping none of the previous records.                *)
C4_ImportAtomic ==
    [][ pc = "import" =>
          IF RequiredCols \subseteq uploaded_file.cols
          THEN /\ Len(tasks') = Len(uploaded_file.rows)
               /\ \A i \in 1..Len(tasks') :
                    /\ tasks'[i].Task = uploaded_file.rows[i].Task
                    /\ tasks'[i].Duration = uploaded_file.rows[i].Duration
                    /\ Val(tasks'[i].StartDate) = Val(uploaded_file.rows[i].StartDate)
               /\ report' = Append(report, "success: data loaded")
          ELSE /\ tasks' = tasks
               /\ report' = Append(report, "error: loading file") ]_vars

\* A file without the Duration column was imported into a store of two
\* tasks, which are still there.
C4_Witness ==
    /\ report = <<"error: loading file">>
    /\ "Duration" \notin uploaded_file.cols
    /\ Len(tasks) = 2

----------------------------------------------------------------------------
(* C9.  Exporting a non-empty store and importing the exported workbook   *)
(* yields a store with the same number of tasks in the same order, each   *)
(* with the same name, duration, start date, dependency, progress, actual *)
(* start and actual finish, and with a recomputed delay equal to the      *)
(* delay stored before the export.  Values are compared by what they say: *)
(* a day is the same day as a date, a Timestamp or a formatted text, an   *)
(* absent value is absent as None, NaN or NaT, and an absent dependency   *)
(* is the empty dependency.                                               *)
DepVal(v) == IF Absent(v) THEN <<>> ELSE v.s

SameTask(t, u) ==
    /\ Val(t.Task) = Val(u.Task)
    /\ Val(t.Duration) = Val(u.Duration)
    /\ Val(t.StartDate) = Val(u.StartDate)
    /\ DepVal(t.DependsOn) = DepVal(u.DependsOn)
    /\ Val(t.Progress) = Val(u.Progress)
    /\ Val(t.ActualStart) = Val(u.ActualStart)
    /\ Val(t.ActualFinish) = Val(u.ActualFinish)
    /\ Val(t.Delay) = Val(u.Delay)

C9_RoundTrip ==
    [][ (pc = "import" /\ tasks # <<>> /\ uploaded_file = save_tasks_to_excel(tasks)) =>
          /\ Len(tasks') = Len(tasks)
          /\ \A i \in 1..Len(tasks) : SameTask(tasks[i], tasks'[i])
          /\ report' = Append(report, "success: data loaded") ]_vars

\* The workbook saved from a store with an added task and an updated task
\* (a delay stored by the update handler) was imported.
C9_Witness ==
    /\ "Delay" \in uploaded_file.cols
    /\ report = <<"success: data loaded">>
    /\ Len(tasks) = 2
    /\ \E i \in 1..2 : uploaded_file.rows[i].ActualFinish.t = "str"
                       /\ uploaded_file.rows[i].Delay.t = "num"
                       /\ tasks[i].Delay = uploaded_file.rows[i].Delay
    /\ \E i \in 1..2 : Absent(tasks[i].ActualFinish)

----------------------------------------------------------------------------
(* C10 as stated.  An update for a selected task changes exactly one      *)
(* record of the store, the selected one, and in that record only         *)
(* progress, actualStart, actualFinish and delay; name, duration,         *)
(* startDate and dependsOn of the record, every other record, and the     *)
(* length and order of the store are unchanged.                           *)
C10_UpdateOneRecord ==
    [][ pc = "edit" =>
          /\ Len(tasks') = Len(tasks)
          /\ \E k \in 1..Len(tasks) :
                /\ tasks[k].Task = form.selected_task
                /\ tasks'[k].Task = tasks[k].Task
                /\ tasks'[k].Duration = tasks[k].Duration
                /\ tasks'[k].StartDate = tasks[k].StartDate
                /\ tasks'[k].DependsOn = tasks[k].DependsOn
                /\ \A i \in 1..Len(tasks) : i # k => tasks'[i] = tasks[i] ]_vars

----------------------------------------------------------------------------
(* The chart build on its own.  The chart is a function of the store; it  *)
(* is checked on the stores left by the import of one uploaded data set,  *)
(* whose rows vary what the chart reads: duration, progress and the two   *)
(* actual dates for the bars, names, start days and dependencies for the  *)
(* connectors.                                                            *)

BarRows ==
    { Row(Text(<<"a">>), Num(d), Ts(1), NaN, p, as, af) :
        d \in {1, 10}, p \in {NaN, Num(0), Num(50), Num(100)},
        as \in {NaN, Ts(1)}, af \in {NaN, Ts(3)} }

DepRows ==
    { Row(Text(n), Num(1), Ts(s), dep, Num(0), NaN, NaN) :
        n \in { <<"a">>, <<"A", " ", "w">> }, s \in {1, 2},
        dep \in { NaN, Text(<<"A">>), Text(<<"A", " ">>), Text(<<"b">>) } }

ChartRows == BarRows \cup DepRows

ChartDatasets ==
    { DataFrame(AllCols, r) : r \in UNION { [1..k -> ChartRows] : k \in 1..MaxRows } }

\* The state in which the chart build starts in the run that imported df
\* into the initial store.
InitChart ==
    \E df \in ChartDatasets :
        /\ tasks = ImportFile(<<>>, df).tasks
        /\ uploaded_file = df
        /\ pc = Goto("import", "none", df, tasks)
        /\ clicked = "none"
        /\ form = NoForm
        /\ report = <<ImportFile(<<>>, df).msg>>
        /\ output = NoFile
        /\ chart = NoChart

SpecChart == InitChart /\ [][ChartStep]_vars

\* The row label of task i and what the chart holds for it.
Label(i) == <<tasks[i].Task.s, i - 1>>
BarsOf(fig, label, name) ==
    SelectSeq(fig.traces, LAMBDA b : b.y = label /\ b.name = name)
LaneOf(fig, label, lane) ==
    SelectSeq(fig.traces, LAMBDA b : b.y = label /\ b.lane = lane)
ArrowsOf(fig, label) == SelectSeq(fig.annotations, LAMBDA a : a.y = label)
LinesOf(fig, label)  == SelectSeq(fig.shapes, LAMBDA l : l.y1 = label)

\* The dependency of a task as the chart build reads it (line 105): a blank
\* cell is the empty text, surrounding whitespace does not count.
DependsOnOf(t) == strip(DepVal(t.DependsOn))

Positive(v) == v.t = "num" /\ v.d > 0

----------------------------------------------------------------------------
----------------------------------------------------------------------------
(* C6.  For every task a chart build emits exactly one planned bar, which *)
(* spans [startDate, startDate + duration days); a progress bar if and    *)
(* only if progress > 0; an actual bar if and only if actualStart and     *)
(* actualFinish are both present; so each task has 1 to 3 bars.           *)
C6_BarsPerTask ==
    chart.built =>
      \A i \in 1..Len(tasks) :
        LET t == tasks[i]
            all == SelectSeq(chart.traces, LAMBDA b : b.y = Label(i))
            planned == BarsOf(chart, Label(i), "Planned")
        IN  /\ Len(planned) = 1
            /\ planned[1].base = t.StartDate.d * day_to_ms
            /\ planned[1].base + planned[1].x = (t.StartDate.d + t.Duration.d) * day_to_ms
            /\ Len(BarsOf(chart, Label(i), "Progress")) =
                   (IF Positive(t.Progress) THEN 1 ELSE 0)
            /\ Len(LaneOf(chart, Label(i), "lower")) =
                   (IF ~Absent(t.ActualStart) /\ ~Absent(t.ActualFinish) THEN 1 ELSE 0)
            /\ Len(all) = Len(planned) + Len(BarsOf(chart, Label(i), "Progress"))
                          + Len(LaneOf(chart, Label(i), "lower"))
            /\ Len(all) \in 1..3

\* One task has a progress bar and no actual bar, the other an actual bar
\* and no progress bar.
C6_Witness ==
    /\ chart.built
    /\ Len(tasks) = 2
    /\ Positive(tasks[1].Progress) /\ Absent(tasks[1].ActualFinish)
    /\ ~Absent(tasks[1].ActualStart)
    /\ ~Positive(tasks[2].Progress)
    /\ ~Absent(tasks[2].ActualStart) /\ ~Absent(tasks[2].ActualFinish)
    /\ Len(chart.traces) = 4

----------------------------------------------------------------------------
(* C7.  The progress bar of a task starts at startDate and is             *)
(* duration * progress / 100 days long: there is none for progress 0, it  *)
(* is 5 days for progress 50 and duration 10, for progress 100 it is as   *)
(* long as the planned bar, and for one duration its length does not      *)
(* decrease when progress grows.                                          *)
ProgressLength(fig, label) ==
    LET bars == BarsOf(fig, label, "Progress")
    IN  IF bars = <<>> THEN 0 ELSE bars[1].x

C7_ProgressBar ==
    chart.built =>
      /\ \A i \in 1..Len(tasks) :
           LET t == tasks[i]
               bars == BarsOf(chart, Label(i), "Progress")
           IN  /\ Positive(t.Progress) =>
                     /\ bars[1].base = t.StartDate.d * day_to_ms
                     /\ bars[1].x = ((t.Duration.d * day_to_ms) \div 100) * t.Progress.d
               /\ t.Progress = Num(0) => bars = <<>>
               /\ (t.Progress = Num(50) /\ t.Duration = Num(10)) =>
                     bars[1].x = 5 * day_to_ms
               /\ t.Progress = Num(100) =>
                     bars[1].x = BarsOf(chart, Label(i), "Planned")[1].x
      /\ \A i, j \in 1..Len(tasks) :
           (/\ tasks[i].Duration = tasks[j].Duration
            /\ tasks[i].Progress.t = "num" /\ tasks[j].Progress.t = "num"
            /\ tasks[i].Progress.d <= tasks[j].Progress.d)
           => ProgressLength(chart, Label(i)) <= ProgressLength(chart, Label(j))

\* A task of 10 days at 50 percent beside a task of 10 days at 100 percent.
C7_Witness ==
    /\ chart.built
    /\ Len(tasks) = 2
    /\ tasks[1].Duration = Num(10) /\ tasks[1].Progress = Num(50)
    /\ tasks[2].Duration = Num(10) /\ tasks[2].Progress = Num(100)
    /\ ProgressLength(chart, Label(1)) = 5 * day_to_ms
    /\ ProgressLength(chart, Label(2)) = 10 * day_to_ms

----------------------------------------------------------------------------
(* C8.  When actualStart and actualFinish are both present, the actual    *)
(* bar starts at actualStart and is (actualFinish - actualStart) + 1 days *)
(* long: the finish day is part of the span, so day 1 to day 3 is 3 days. *)
C8_ActualBarInclusive ==
    chart.built =>
      \A i \in 1..Len(tasks) :
        LET t == tasks[i]
            bars == LaneOf(chart, Label(i), "lower")
        IN  (~Absent(t.ActualStart) /\ ~Absent(t.ActualFinish)) =>
              /\ bars[1].base = t.ActualStart.d * day_to_ms
              /\ bars[1].x = ((t.ActualFinish.d - t.ActualStart.d) + 1) * day_to_ms
              /\ (t.ActualStart.d = 1 /\ t.ActualFinish.d = 3) =>
                    bars[1].x = 3 * day_to_ms

\* A task started on day 1 and finished on day 3 has an actual bar.
C8_Witness ==
    /\ chart.built
    /\ \E i \in 1..Len(tasks) :
          /\ Val(tasks[i].ActualStart) = <<TRUE, 1, <<>>>>
          /\ Val(tasks[i].ActualFinish) = <<TRUE, 3, <<>>>>
          /\ LaneOf(chart, Label(i), "lower") # <<>>

====
